---- MODULE Spec2Model ----
(***************************************************************************)
(* Support Ticket Assistant (src/app.py): a Streamlit script.  Every user  *)
(* interaction re-runs main() top to bottom against st.session_state.      *)
(* One action of the model is one complete script run; the button that     *)
(* triggered the run is the only st.button(...) call returning True.       *)
(***************************************************************************)
EXTENDS Integers, Sequences, FiniteSets, TLC

VARIABLES
    slots,              \* keys present in st.session_state
    processed_tickets,  \* st.session_state.processed_tickets (0 while absent)
    ticket_history,     \* st.session_state.ticket_history    (<<>> while absent)
    show_history,       \* st.session_state.show_history      (FALSE while absent)
    out                 \* what the last script run rendered, and how it ended

vars == <<slots, processed_tickets, ticket_history, show_history, out>>

(***************************************************************************)
(* Bounds and program constants                                            *)
(***************************************************************************)
MaxHist == 2        \* longest ticket_history explored

TruncLen == 100     \* item['ticket'][:100], len(item['ticket']) > 100

\* Wall-clock readings (seconds) the model lets datetime.now() return.
Times == {60}

(***************************************************************************)
(* Python strings as sequences of characters                               *)
(***************************************************************************)
Rep(n, c) == [i \in 1..n |-> c]

IsSpace(c) == c = " "

RECURSIVE LStrip(_)
LStrip(s) == IF s # <<>> /\ IsSpace(Head(s)) THEN LStrip(Tail(s)) ELSE s

RECURSIVE RStrip(_)
RStrip(s) ==
    IF s # <<>> /\ IsSpace(s[Len(s)]) THEN RStrip(SubSeq(s, 1, Len(s) - 1)) ELSE s

\* str.strip()
Strip(s) == RStrip(LStrip(s))

\* Values the text area can hold: empty, blank, exactly TruncLen characters
\* (with a leading blank), and TruncLen + 1 characters.
TicketTexts ==
    { <<>>,
      <<" ", " ">>,
      <<" ">> \o Rep(TruncLen - 1, "a"),
      Rep(TruncLen + 1, "b") }

Ellipsis == <<".", ".", ".">>

(***************************************************************************)
(* JSON values as json.loads returns them                                  *)
(***************************************************************************)
JStr(s) == [t |-> "str", v |-> s]
JNum(s) == [t |-> "num", v |-> s]
Absent  == [t |-> "absent", v |-> ""]

Obj(ks, summary, type, error) ==
    [kind |-> "object", keys |-> ks, summary |-> summary, type |-> type,
     error |-> error, elems |-> {}, v |-> ""]
Arr(es) ==
    [kind |-> "array", keys |-> {}, summary |-> Absent, type |-> Absent,
     error |-> Absent, elems |-> es, v |-> ""]
Num(n) ==
    [kind |-> "number", keys |-> {}, summary |-> Absent, type |-> Absent,
     error |-> Absent, elems |-> {}, v |-> n]
Null ==
    [kind |-> "null", keys |-> {}, summary |-> Absent, type |-> Absent,
     error |-> Absent, elems |-> {}, v |-> ""]

\* Mutant of Truthy: the test `if "error" not in result`, without `result and`.
Truthy_Always(r) == TRUE

\* bool(result)
Truthy(r) ==
    CASE r.kind = "object" -> r.keys # {}
      [] r.kind = "array"  -> r.elems # {}
      [] r.kind = "number" -> r.v # "0"
      [] OTHER             -> FALSE

\* `"error" in result` raises TypeError on a number or on None
InRaises(r) == r.kind \in {"number", "null"}

\* `key in result` on a dict (keys) or a list (elements)
Contains(r, k) ==
    CASE r.kind = "object" -> k \in r.keys
      [] r.kind = "array"  -> k \in r.elems
      [] OTHER             -> FALSE

\* result.get raises AttributeError on anything that is not a dict
GetRaises(r) == r.kind # "object"

\* dict.get(key, default) for the three keys the script reads
Get(r, k, default) ==
    IF k \in r.keys
    THEN CASE k = "summary" -> r.summary
           [] k = "type"    -> r.type
           [] k = "error"   -> r.error
    ELSE default

IsStr(x) == x.t = "str"

\* str.upper() and str.capitalize() on the type names the model uses
Upper(s) ==
    CASE s = "bug" -> "BUG"
      [] s = "feature" -> "FEATURE"
      [] s = "unknown" -> "UNKNOWN"
      [] OTHER -> s

Capitalize(s) ==
    CASE s = "bug" -> "Bug"
      [] s = "feature" -> "Feature"
      [] s = "unknown" -> "Unknown"
      [] OTHER -> s

(***************************************************************************)
(* The model-serving endpoint and the two functions that call it           *)
(***************************************************************************)
NoModel == "None"       \* st.selectbox over an empty option list returns None

\* Outcomes of ollama.list(): an exception, or a list of model names.
Listings ==
    { [ok |-> FALSE, names |-> <<>>],
      [ok |-> TRUE,  names |-> <<>>],
      [ok |-> TRUE,  names |-> <<"llama3", "mistral">>] }

\* get_available_models(): the names, or the fallback after an exception
get_available_models(listing) ==
    IF listing.ok THEN listing.names ELSE <<"llama3">>

\* st.selectbox: the values the widget can return for these options
SelectBox(options) ==
    IF options = <<>> THEN {NoModel} ELSE {options[i] : i \in DOMAIN options}

\* Values the reply's content can parse to.
ParsedReplies ==
    { Obj({"summary", "type"}, JStr("Login crash"), JStr("bug"), Absent),
      Obj({"summary", "type"}, JStr("Login crash"), JNum("5"), Absent),
      Obj({"category"}, Absent, Absent, Absent),
      Obj({"summary", "type", "error"}, JStr("Login crash"), JStr("bug"),
          JStr("model overloaded")),
      Obj({}, Absent, Absent, Absent),
      Arr({"error"}),
      Num("7"),
      Null }

\* Outcomes of ollama.chat followed by json.loads: an exception (transport,
\* timeout, JSONDecodeError) or a parsed value.
ChatOutcomes ==
    { [ok |-> FALSE, msg |-> m, value |-> Null] :
          m \in {"connection refused", "timed out", "Expecting value"} }
    \cup { [ok |-> TRUE, msg |-> "", value |-> v] : v \in ParsedReplies }

ErrorResult(msg) == Obj({"error"}, Absent, Absent, JStr(msg))

\* classify_and_summarize_ollama: whatever the call or the parse raises is
\* returned as {"error": str(e)}.  The client raises when model is None.
classify_and_summarize_ollama(model, outcome) ==
    IF model = NoModel THEN ErrorResult("must provide a model")
    ELSE IF ~outcome.ok THEN ErrorResult(outcome.msg)
    ELSE outcome.value

(***************************************************************************)
(* Formatting                                                              *)
(***************************************************************************)
\* strftime('%Y-%m-%d %H:%M:%S') and strftime('%Y-%m-%d %H:%M')
StrfSeconds(t) == <<"%Y-%m-%d %H:%M:%S", t>>
StrfMinutes(t) == <<"%Y-%m-%d %H:%M", t \div 60>>

\* Mutant of OriginalTicket: >= in place of >.
OriginalTicket_Ge(ticket) ==
    IF Len(ticket) >= TruncLen
    THEN SubSeq(ticket, 1, TruncLen) \o Ellipsis
    ELSE ticket

\* item['ticket'][:100] + '...' if len(item['ticket']) > 100 else item['ticket']
OriginalTicket(ticket) ==
    IF Len(ticket) > TruncLen
    THEN SubSeq(ticket, 1, TruncLen) \o Ellipsis
    ELSE ticket

Unknown == JStr("unknown")

(***************************************************************************)
(* One script run.  A run is threaded through the sections of main() as a  *)
(* record [s, o, ab]: the session state, the output rendered so far and    *)
(* the line at which an uncaught exception ended the run (0: none).        *)
(***************************************************************************)
Session ==
    [slots |-> slots, processed_tickets |-> processed_tickets,
     ticket_history |-> ticket_history, show_history |-> show_history]

NoMessage == <<>>
\* A message box: its level and its fixed text (an exception's own text,
\* interpolated after it, is not kept).
Msg(level, text) == [level |-> level, text |-> text]

\* Nothing rendered yet.
BlankOut ==
    [metric |-> 0, messages |-> NoMessage,
     summary_shown |-> Absent, type_shown |-> Absent, type_style |-> "",
     type_lines |-> {}, has_download |-> FALSE, download |-> <<>>,
     file_time |-> 0, history_shown |-> FALSE, history_view |-> <<>>,
     buttons |-> {}, calls |-> 0, aborted |-> 0]

Say(o, level, text) ==
    [o EXCEPT !.messages = Append(@, Msg(level, text))]

Raise(r, line) == [r EXCEPT !.ab = line, !.o.aborted = line]

\* Mutant of ClearHistory: the counter is reset only with the history.
ClearHistory_KeepCount(s) ==
    [s EXCEPT !.ticket_history = <<>>]

\* lines 82-84: the Clear History handler
ClearHistory(s) ==
    [s EXCEPT !.ticket_history =
                  IF "ticket_history" \in s.slots THEN <<>> ELSE @,
              !.processed_tickets = 0]

\* lines 60-85: the sidebar
Sidebar(s, listing, button) ==
    LET s1 == IF "processed_tickets" \in s.slots THEN s
              ELSE [s EXCEPT !.slots = @ \cup {"processed_tickets"},
                             !.processed_tickets = 0]
        o1 == [BlankOut EXCEPT !.metric = s1.processed_tickets,
                               !.buttons = {"Clear"}]
    IN  IF button = "Clear"
        THEN [s |-> ClearHistory(s1),
              o |-> Say(o1, "success", "History cleared!"), ab |-> 0]
        ELSE [s |-> s1, o |-> o1, ab |-> 0]

\* Mutant of IsBlank: the text is never tested.
IsBlank_Never(ticket_text) == FALSE

\* line 122: a ticket text that is empty after strip() is not analyzed
IsBlank(ticket_text) == Strip(ticket_text) = <<>>

\* Mutant of NoErrorKey: the error key is not looked at.
NoErrorKey_Always(result) == TRUE

\* line 126, second operand: "error" not in result
NoErrorKey(result) == ~Contains(result, "error")

\* Mutant of StoreResult: the entry is put in front.
StoreResult_Prepend(s, entry) ==
    [s EXCEPT !.processed_tickets = @ + 1,
              !.slots = @ \cup {"ticket_history"},
              !.ticket_history = <<entry>> \o @]

\* lines 127-138: count the ticket and append it to the history
StoreResult(s, entry) ==
    [s EXCEPT !.processed_tickets = @ + 1,
              !.slots = @ \cup {"ticket_history"},
              !.ticket_history = Append(@, entry)]

\* Mutant of HistoryEntry: the stripped text is stored.
HistoryEntry_Stripped(now, ticket_text, result, selected_model) ==
    [timestamp |-> now, ticket |-> Strip(ticket_text),
     result |-> result, model |-> selected_model]

\* lines 133-138: the entry appended to the history
HistoryEntry(now, ticket_text, result, selected_model) ==
    [timestamp |-> now, ticket |-> ticket_text,
     result |-> result, model |-> selected_model]

\* lines 155-162: the style the classification is shown in
TypeStyle(ticket_type) ==
    CASE ticket_type = JStr("bug")     -> "error"
      [] ticket_type = JStr("feature") -> "info"
      [] ticket_type = JStr("billing") -> "warning"
      [] OTHER                         -> "write"

\* lines 140-162: the display of a stored result
ShowResult(r, result) ==
    LET r1 == [r EXCEPT !.o = Say(@, "success", "Analysis complete!")]
        ticket_type == Get(result, "type", Unknown)
    IN  IF GetRaises(result) THEN Raise(r1, 148)
        ELSE LET r2 == [r1 EXCEPT !.o.summary_shown =
                            Get(result, "summary", JStr("No summary available"))]
             IN  IF ~IsStr(ticket_type) THEN Raise(r2, 162)
                 ELSE [r2 EXCEPT !.o.type_shown = JStr(Upper(ticket_type.v)),
                                 !.o.type_style = TypeStyle(ticket_type)]

\* lines 121-167: the Analyze Ticket handler
Analyze(r, ticket_text, selected_model, outcome, now) ==
    IF IsBlank(ticket_text)
    THEN [r EXCEPT !.o = Say(@, "warning",
                             "Please enter a ticket text to analyze.")]
    ELSE LET result == classify_and_summarize_ollama(selected_model, outcome)
             called == [r EXCEPT !.o.calls = @ + 1]
         IN  IF ~Truthy(result)
             THEN IF GetRaises(result) THEN Raise(called, 165)
                  ELSE [called EXCEPT !.o =
                            Say(@, "error", "Error processing ticket")]
             ELSE IF InRaises(result) THEN Raise(called, 126)
             ELSE IF NoErrorKey(result)
             THEN ShowResult(
                      [called EXCEPT !.s = StoreResult(@,
                          HistoryEntry(now, ticket_text, result,
                                       selected_model))],
                      result)
             ELSE IF GetRaises(result) THEN Raise(called, 165)
             ELSE [called EXCEPT !.o =
                       Say(@, "error", "Error processing ticket")]

\* lines 87-167: the input column
Col1(r, button, ticket_text, selected_model, outcome, now) ==
    LET r1 == [r EXCEPT !.o.buttons = @ \cup {"Analyze"}]
    IN  IF button = "Analyze"
        THEN Analyze(r1, ticket_text, selected_model, outcome, now)
        ELSE r1

HasHistory(s) == "ticket_history" \in s.slots /\ s.ticket_history # <<>>

\* lines 174-175
Types(hist) == [i \in DOMAIN hist |-> Get(hist[i].result, "type", Unknown)]
TypeCounts(types) ==
    { <<types[i], Cardinality({j \in DOMAIN types : types[j] = types[i]})>> :
          i \in DOMAIN types }

\* lines 173-179: the type distribution.  type_lines holds the lines of a
\* loop that ran to its end; the lines written before an exception are not
\* kept.
TypeDistribution(r) ==
    IF ~HasHistory(r.s) THEN r
    ELSE LET hist == r.s.ticket_history
         IN  IF \E i \in DOMAIN hist : GetRaises(hist[i].result)
             THEN Raise(r, 174)
             ELSE IF \E c \in TypeCounts(Types(hist)) : ~IsStr(c[1])
             THEN Raise(r, 179)
             ELSE [r EXCEPT !.o.type_lines =
                      { <<Capitalize(c[1].v), c[2]>> :
                            c \in TypeCounts(Types(hist)) }]

\* lines 189-196
ExportData(hist) ==
    [i \in DOMAIN hist |->
        [timestamp       |-> StrfSeconds(hist[i].timestamp),
         type            |-> Get(hist[i].result, "type", Unknown),
         summary         |-> Get(hist[i].result, "summary", JStr("")),
         original_ticket |-> OriginalTicket(hist[i].ticket)]]

\* lines 186-205: the Export Results handler
Export(r, now) ==
    IF HasHistory(r.s)
    THEN IF \E i \in DOMAIN r.s.ticket_history :
                GetRaises(r.s.ticket_history[i].result)
         THEN Raise(r, 193)
         ELSE [r EXCEPT !.o.has_download = TRUE,
                        !.o.download = ExportData(r.s.ticket_history),
                        !.o.file_time = now]
    ELSE [r EXCEPT !.o = Say(@, "warning", "No data to export")]

\* lines 183-184: the View History handler
ViewHistory(s) ==
    [s EXCEPT !.slots = @ \cup {"show_history"}, !.show_history = TRUE]

\* lines 169-205: the overview column
Col2(r, button, now) ==
    IF r.ab # 0 THEN r
    ELSE LET r1 == TypeDistribution(r)
         IN  IF r1.ab # 0 THEN r1
             ELSE LET r2 == [r1 EXCEPT !.o.buttons = @ \cup {"View", "Export"}]
                      r3 == IF button = "View"
                            THEN [r2 EXCEPT !.s = ViewHistory(@)] ELSE r2
                  IN  IF button = "Export" THEN Export(r3, now) ELSE r3

\* lines 212-218: the expanders, most recent first
HistoryView(hist) ==
    [i \in DOMAIN hist |->
        LET item == hist[Len(hist) - i + 1]
        IN  [number  |-> Len(hist) - (i - 1),
             type    |-> Upper(Get(item.result, "type", Unknown).v),
             time    |-> StrfMinutes(item.timestamp),
             ticket  |-> item.ticket,
             summary |-> Get(item.result, "summary", JStr("No summary")),
             model   |-> item.model]]

\* lines 222-223: the Hide History handler
HideHistory(s) == [s EXCEPT !.show_history = FALSE]

\* line 208: st.session_state.get('show_history', False)
ShowHistoryFlag(s) == "show_history" \in s.slots /\ s.show_history

\* lines 207-223: the history section
HistorySection(r, button) ==
    IF r.ab # 0 \/ ~ShowHistoryFlag(r.s) THEN r
    ELSE LET hist == r.s.ticket_history
             r1 == [r EXCEPT !.o.history_shown = TRUE]
             r2 == IF HasHistory(r.s)
                   THEN IF \E i \in DOMAIN hist :
                               \/ GetRaises(hist[i].result)
                               \/ ~IsStr(Get(hist[i].result, "type", Unknown))
                        THEN Raise(r1, 213)
                        ELSE [r1 EXCEPT !.o.history_view = HistoryView(hist)]
                   ELSE [r1 EXCEPT !.o = Say(@, "info",
                             "No tickets processed yet.")]
         IN  IF r2.ab # 0 THEN r2
             ELSE LET r3 == [r2 EXCEPT !.o.buttons = @ \cup {"Hide"}]
                  IN  IF button = "Hide"
                      THEN [r3 EXCEPT !.s = HideHistory(@)] ELSE r3

\* main(): the whole script, for the run in which `button` returns True
Main(s, button, listing, selected_model, ticket_text, outcome, now) ==
    HistorySection(
        Col2(Col1(Sidebar(s, listing, button),
                  button, ticket_text, selected_model, outcome, now),
             button, now),
        button)

\* The session state and the output a finished (or aborted) run leaves.
Commit(r) ==
    /\ Len(r.s.ticket_history) <= MaxHist
    /\ slots' = r.s.slots
    /\ processed_tickets' = r.s.processed_tickets
    /\ ticket_history' = r.s.ticket_history
    /\ show_history' = r.s.show_history
    /\ out' = r.o

\* Inputs of a run that does not read them.
NoTicket == <<>>
NoOutcome == [ok |-> FALSE, msg |-> "", value |-> Null]

\* The endpoint answers only a run that reaches it: line 124 is not executed
\* for a blank text, and the client raises before sending when model is None.
EndpointOutcomes(ticket_text, selected_model) ==
    IF IsBlank(ticket_text) \/ selected_model = NoModel
    THEN {NoOutcome} ELSE ChatOutcomes

\* One script run in which `button` returns True.  The model list and the
\* selection are read in every run.
Run(button, ticket_text) ==
    \E listing \in Listings, now \in Times :
       \E selected_model \in SelectBox(get_available_models(listing)) :
          \E outcome \in IF button = "Analyze"
                         THEN EndpointOutcomes(ticket_text, selected_model)
                         ELSE {NoOutcome} :
             Commit(Main(Session, button, listing, selected_model,
                         ticket_text, outcome, now))

(***************************************************************************)
(* Actions: one per user interaction.  A button can be pressed only if the *)
(* previous run rendered it.                                               *)
(***************************************************************************)
\* The first run of the session.
PageLoad ==
    /\ out.buttons = {}
    /\ Run("none", NoTicket)

\* A widget change (or the download button) that re-runs the script with no
\* button pressed.
WidgetChanged ==
    /\ out.buttons # {}
    /\ Run("none", NoTicket)

ClearHistoryPressed ==
    /\ "Clear" \in out.buttons
    /\ Run("Clear", NoTicket)

AnalyzeTicketPressed ==
    /\ "Analyze" \in out.buttons
    /\ \E ticket_text \in TicketTexts : Run("Analyze", ticket_text)

ViewHistoryPressed ==
    /\ "View" \in out.buttons
    /\ Run("View", NoTicket)

ExportResultsPressed ==
    /\ "Export" \in out.buttons
    /\ Run("Export", NoTicket)

HideHistoryPressed ==
    /\ "Hide" \in out.buttons
    /\ Run("Hide", NoTicket)

Init ==
    /\ slots = {}
    /\ processed_tickets = 0
    /\ ticket_history = <<>>
    /\ show_history = FALSE
    /\ out = BlankOut

Next ==
    \/ PageLoad
    \/ WidgetChanged
    \/ ClearHistoryPressed
    \/ AnalyzeTicketPressed
    \/ ViewHistoryPressed
    \/ ExportResultsPressed
    \/ HideHistoryPressed

Spec == Init /\ [][Next]_vars

(***************************************************************************)
(* Properties                                                              *)
(***************************************************************************)
SaidIn(o, text) == \E i \in DOMAIN o.messages : o.messages[i].text = text
Said(text) == SaidIn(out, text)

\* The runs the next press of Analyze Ticket can be, from the current state.
AnalyzeInputs ==
    UNION { { [listing |-> l, model |-> m, ticket |-> t, outcome |-> c,
               now |-> n] : c \in EndpointOutcomes(t, m), n \in Times } :
            l \in Listings, m \in {NoModel, "llama3", "mistral"},
            t \in TicketTexts }

CanSelect(i) == i.model \in SelectBox(get_available_models(i.listing))

AnalyzeRun(i) ==
    Main(Session, "Analyze", i.listing, i.model, i.ticket, i.outcome, i.now)

ResultOf(i) == classify_and_summarize_ollama(i.model, i.outcome)

NonBlankText(t) == \E k \in DOMAIN t : t[k] # " "

HasSummaryAndType(result) ==
    /\ result.kind = "object"
    /\ {"summary", "type"} \subseteq result.keys
    /\ "error" \notin result.keys

HasErrorKey(result) == result.kind = "object" /\ "error" \in result.keys

\* C1: pressing Analyze Ticket with a non-blank text, when the classifier
\* returns an object with summary and type and no error key, appends exactly
\* one entry (the text, that result and the selected model) at the end of
\* the history, leaves the earlier entries as they were and adds one to
\* processed_tickets.
C1_SuccessAppendsOne ==
    "Analyze" \in out.buttons =>
      \A i \in AnalyzeInputs :
        (CanSelect(i) /\ NonBlankText(i.ticket) /\ HasSummaryAndType(ResultOf(i)))
        => LET after == AnalyzeRun(i).s
               n == Len(ticket_history)
           IN  /\ Len(after.ticket_history) = n + 1
               /\ after.processed_tickets = processed_tickets + 1
               /\ SubSeq(after.ticket_history, 1, n) = ticket_history
               /\ after.ticket_history[n + 1].ticket = i.ticket
               /\ after.ticket_history[n + 1].result = ResultOf(i)
               /\ after.ticket_history[n + 1].model = i.model

C1_Witness ==
    /\ Said("Analysis complete!")
    /\ Len(ticket_history) = 2
    /\ HasSummaryAndType(ticket_history[2].result)
    /\ ticket_history[1] # ticket_history[2]

\* C2: an exception of the call or of the parse comes back from the
\* classifier as a result with an error key; and an Analyze Ticket run whose
\* result has an error key leaves ticket_history and processed_tickets as
\* they were.
C2_ErrorLeavesHistory ==
    /\ \A c \in ChatOutcomes, m \in {"llama3", "mistral"} :
          ~c.ok => HasErrorKey(classify_and_summarize_ollama(m, c))
    /\ "Analyze" \in out.buttons =>
         \A i \in AnalyzeInputs :
           (CanSelect(i) /\ NonBlankText(i.ticket) /\ HasErrorKey(ResultOf(i)))
           => LET after == AnalyzeRun(i).s
              IN  /\ after.ticket_history = ticket_history
                  /\ after.processed_tickets = processed_tickets
                  /\ after.slots = slots

C2_Witness ==
    /\ Said("Error processing ticket")
    /\ out.calls = 1
    /\ Len(ticket_history) = 1
    /\ processed_tickets = 1

C4_EveryRunCompletes == out.aborted = 0

\* C5: pressing Analyze Ticket with an empty text makes no call to the
\* classifier, warns the user and changes nothing in the session state.
C5_EmptyTextRejected ==
    "Analyze" \in out.buttons =>
      \A i \in AnalyzeInputs :
        (CanSelect(i) /\ i.ticket = <<>>)
        => LET r == AnalyzeRun(i)
           IN  /\ r.o.calls = 0
               /\ SaidIn(r.o, "Please enter a ticket text to analyze.")
               /\ r.s = Session

C5_Witness ==
    /\ Said("Please enter a ticket text to analyze.")
    /\ out.calls = 0
    /\ ticket_history # <<>>
    /\ show_history

\* C6: the history section is rendered by a run exactly when the visibility
\* flag is set at the end of it, that is when the last of View History and
\* Hide History was View History (runs ended by an exception aside).
C6_SectionShownIffLastWasView ==
    out.aborted = 0 => (out.history_shown <=> ShowHistoryFlag(Session))

\* C7: the run that handles a successful Analyze Ticket or a Clear History
\* shows, as Processed Tickets, the value processed_tickets has when the run
\* finishes (runs ended by an exception aside).
C7_MetricIsCurrent ==
    (out.aborted = 0 /\ (Said("Analysis complete!") \/ Said("History cleared!")))
    => out.metric = processed_tickets

\* What C8 expects of original_ticket.
ExpectedOriginal(t) ==
    IF Len(t) <= 100 THEN t
    ELSE [k \in 1..103 |-> IF k <= 100 THEN t[k] ELSE "."]

\* C8: Export Results with no history warns and offers no download; with a
\* history it offers an array as long as the history, in its order, whose
\* original_ticket is the ticket itself up to 100 characters and otherwise
\* its first 100 characters followed by '...'; the session state is unchanged.
C8_Export ==
    "Export" \in out.buttons =>
      \A l \in Listings, n \in Times :
        \A m \in SelectBox(get_available_models(l)) :
          LET r == Main(Session, "Export", l, m, NoTicket, NoOutcome, n)
          IN  /\ r.s = Session
              /\ ticket_history = <<>> =>
                    /\ ~r.o.has_download
                    /\ SaidIn(r.o, "No data to export")
              /\ ticket_history # <<>> =>
                    /\ r.o.has_download
                    /\ Len(r.o.download) = Len(ticket_history)
                    /\ \A k \in DOMAIN ticket_history :
                          /\ r.o.download[k].original_ticket =
                                ExpectedOriginal(ticket_history[k].ticket)
                          /\ Len(r.o.download[k].original_ticket) <= 103

C8_Witness ==
    /\ out.has_download
    /\ Len(out.download) = 2
    /\ Len(ticket_history[1].ticket) = 101
    /\ Len(out.download[1].original_ticket) = 103
    /\ Len(ticket_history[2].ticket) = 100
    /\ out.download[2].original_ticket = ticket_history[2].ticket

\* C9: a step changes ticket_history only by appending one entry at its end,
\* in a run that reports a completed analysis, or by emptying it, in a run
\* that reports the clearing and leaves processed_tickets at 0; every other
\* run leaves it as it was.
C9_AppendOrClearOnly ==
    [][ \/ ticket_history' = ticket_history
        \/ /\ SaidIn(out', "Analysis complete!")
           /\ Len(ticket_history') = Len(ticket_history) + 1
           /\ SubSeq(ticket_history', 1, Len(ticket_history)) = ticket_history
        \/ /\ SaidIn(out', "History cleared!")
           /\ ticket_history' = <<>>
           /\ processed_tickets' = 0 ]_vars

C9_Witness ==
    /\ Said("History cleared!")
    /\ ticket_history = <<>>
    /\ "ticket_history" \in slots
    /\ show_history

\* C10: at the end of every run processed_tickets is the number of entries
\* of ticket_history (an absent slot counting as empty).
C10_CounterIsLength == processed_tickets = Len(ticket_history)

C10_Witness ==
    /\ processed_tickets = 2
    /\ Len(ticket_history) = 2
    /\ out.aborted = 0

====
